---- MODULE Spec2Model ----
(***************************************************************************)
(* Model of the terminal navigation layer of tabnews-cli                   *)
(* (src/tabnews_cli.py): the fields of TabNewsUI, the key handlers bound   *)
(* in TabNewsUI.setup_ui, TabNewsUI.run and the three TabNewsAPI fetches   *)
(* the handlers call.  JSON values are tagged records so that a list, an   *)
(* object and None can be told apart the way Python tells them apart.      *)
(***************************************************************************)
EXTENDS Integers, Sequences, FiniteSets, TLC

(* ------------------------------ bounds --------------------------------- *)
MaxItems == 3        \* longest list a page fetch returns
MaxPage == 2         \* 'right' is not taken beyond this page
MaxScroll == 2       \* 'down' in content mode is not taken beyond this offset
MaxOffset == 1       \* how far the catalogue window of a page may be shifted

(* ------------------------- program constants --------------------------- *)
PerPage == 10
Strategy == "relevant"

(* ----------------------------- JSON values ----------------------------- *)
None == [kind |-> "None"]

PyList(s) == [kind |-> "list", elems |-> s]

EmptyList == PyList(<< >>)

\* The JSON object the remote answers with on a non-success status; the
\* client never looks at the status, response.json() just decodes the body.
ErrorBody == [kind |-> "dict", name |-> "NotFoundError", status_code |-> 404]

Owners == <<"joe", "ann">>
Slugs == <<"hello", "world">>

\* The i-th item of the remote catalogue: identity is (owner_username, slug).
Item(i) ==
    [kind |-> "dict",
     owner_username |-> Owners[(i % 2) + 1],
     slug |-> Slugs[((i \div 2) % 2) + 1],
     title |-> Slugs[((i \div 2) % 2) + 1]]

\* What GET /contents/{username}/{slug} decodes to on success.
ContentOf(username, slug) ==
    [kind |-> "dict", owner_username |-> username, slug |-> slug,
     title |-> slug, body |-> "body"]

\* One reply of GET /contents/{username}/{slug}/children.
CommentOf(username, slug) ==
    [kind |-> "dict", owner_username |-> "ann", body |-> "reply",
     parent |-> <<username, slug>>]

\* len(x) for the values the fields can hold.
PyLen(x) ==
    IF x.kind = "list" THEN Len(x.elems)
    ELSE IF x.kind = "dict" THEN Cardinality(DOMAIN x) - 1
    ELSE 0

\* bool(x): None, [] and {} are falsy.
Truthy(x) == x.kind # "None" /\ PyLen(x) > 0

Max(a, b) == IF a >= b THEN a ELSE b
Min(a, b) == IF a <= b THEN a ELSE b

\* No output of get_renderable is at hand for the current state.
Stale == [kind |-> "stale"]

(* ------------------------------- state --------------------------------- *)
VARIABLES
    app,                      \* lifecycle of Application: created/running/exited/crashed
    current_page,
    selected_index,
    contents,
    current_content,
    view_mode,
    content_scroll_position,
    comments,
    lastKey,                  \* the key whose handler ran last ("none" before any)
    fetches,                  \* the requests that handler issued, with their outcomes
    raised,                   \* the exception that handler left with ("none" if it returned)
    rendered                  \* what get_renderable returned since the last key ("stale" if not called)

nav == <<current_page, selected_index, contents, current_content, view_mode,
         content_scroll_position, comments>>

vars == <<app, current_page, selected_index, contents, current_content, view_mode,
          content_scroll_position, comments, lastKey, fetches, raised, rendered>>

(* ------------------------- remote content source ----------------------- *)
\* A fetch either returns the decoded body (the expected value or the error
\* object of a non-success status) or raises inside session.get /
\* response.json.
Outcomes(results) ==
    {[raised |-> "none", status |-> 200, value |-> v] : v \in results}
    \cup {[raised |-> "none", status |-> 404, value |-> ErrorBody]}
    \cup {[raised |-> e, status |-> 0, value |-> None] :
            e \in {"ConnectionError", "JSONDecodeError"}}

ListResults ==
    {PyList([i \in 1..k |-> Item(i + off)]) : k \in 0..MaxItems, off \in 0..MaxOffset}

get_contents(page, per_page, strategy) == Outcomes(ListResults)

get_content(username, slug) == Outcomes({ContentOf(username, slug)})

get_comments(username, slug) ==
    Outcomes({EmptyList, PyList(<<CommentOf(username, slug)>>)})

ListRequest(page, o) ==
    [op |-> "get_contents", page |-> page, per_page |-> PerPage, strategy |-> Strategy,
     raised |-> o.raised, status |-> o.status, value |-> o.value]

ItemRequest(op, username, slug, o) ==
    [op |-> op, username |-> username, slug |-> slug,
     raised |-> o.raised, status |-> o.status, value |-> o.value]

(* ------------------------------ startup -------------------------------- *)
Init ==
    /\ app = "created"
    /\ current_page = 1
    /\ selected_index = 0
    /\ contents = EmptyList
    /\ current_content = None
    /\ view_mode = "feed"
    /\ content_scroll_position = 0
    /\ comments = EmptyList
    /\ lastKey = "none"
    /\ fetches = << >>
    /\ raised = "none"
    /\ rendered = Stale

\* TabNewsUI.run: fetch_contents(), then the application loop starts; an
\* exception of the fetch leaves run() before app.run() is reached.
Run ==
    /\ app = "created"
    /\ \E o \in get_contents(current_page, PerPage, Strategy) :
         /\ fetches' = <<ListRequest(current_page, o)>>
         /\ raised' = o.raised
         /\ IF o.raised = "none"
              THEN contents' = o.value /\ app' = "running"
              ELSE contents' = contents /\ app' = "crashed"
    /\ UNCHANGED <<current_page, selected_index, current_content, view_mode,
                   content_scroll_position, comments, lastKey, rendered>>

(* ----------------------------- key handlers ---------------------------- *)
\* Every handler but 'q' ends in self.update_view(), a method TabNewsUI does
\* not define: a handler that reaches that line leaves with AttributeError,
\* after its assignments have been made.  The application loop reports the
\* exception of a handler and goes on reading keys.
UpdateView == "AttributeError"

AfterHandlerCrash(exc) == IF exc = "none" THEN "running" ELSE "crashed"

\* The state of the loop started by self.app.run() after a key handler has
\* left with exc: no handler calls event.app.exit() on an error and none
\* catches one, the exception goes to the loop's exception handler, which
\* reports it and keeps the application running.
AfterHandler(exc) == "running"

AppExitIgnored == "running"

\* event.app.exit()
AppExit == "exited"

UpIndex(sel) == Max(0, sel - 1)

DownIndexNoClamp(n, sel) == sel + 1

DownIndex(n, sel) == Min(n - 1, sel + 1)

UpScrollNoClamp(pos) == pos - 1

UpScroll(pos) == Max(0, pos - 1)

DownScroll(pos) == pos + 1

KeyUp ==
    /\ app = "running"
    /\ lastKey' = "up"
    /\ rendered' = Stale
    /\ IF view_mode = "feed"
         THEN /\ selected_index' = UpIndex(selected_index)
              /\ UNCHANGED content_scroll_position
         ELSE IF view_mode = "content"
           THEN /\ content_scroll_position' = UpScroll(content_scroll_position)
                /\ UNCHANGED selected_index
           ELSE UNCHANGED <<selected_index, content_scroll_position>>
    /\ fetches' = << >>
    /\ raised' = UpdateView
    /\ app' = AfterHandler(raised')
    /\ UNCHANGED <<current_page, contents, current_content, view_mode, comments>>

KeyDown ==
    /\ app = "running"
    /\ view_mode = "content" => content_scroll_position < MaxScroll
    /\ lastKey' = "down"
    /\ rendered' = Stale
    /\ IF view_mode = "feed"
         THEN /\ selected_index' = DownIndex(PyLen(contents), selected_index)
              /\ UNCHANGED content_scroll_position
         ELSE IF view_mode = "content"
           THEN /\ content_scroll_position' = DownScroll(content_scroll_position)
                /\ UNCHANGED selected_index
           ELSE UNCHANGED <<selected_index, content_scroll_position>>
    /\ fetches' = << >>
    /\ raised' = UpdateView
    /\ app' = AfterHandler(raised')
    /\ UNCHANGED <<current_page, contents, current_content, view_mode, comments>>

\* TabNewsUI.fetch_contents as called from 'left'/'right': page and index
\* are already assigned when the request goes out.
FetchContentsRetry(page) ==
    \E o1 \in get_contents(page, PerPage, Strategy) :
       \E o2 \in get_contents(page, PerPage, Strategy) :
          /\ fetches' = <<ListRequest(page, o1), ListRequest(page, o2)>>
          /\ IF o2.raised = "none"
               THEN contents' = o2.value /\ raised' = UpdateView
               ELSE contents' = contents /\ raised' = o2.raised

FetchContents(page) ==
    \E o \in get_contents(page, PerPage, Strategy) :
       /\ fetches' = <<ListRequest(page, o)>>
       /\ IF o.raised = "none"
            THEN contents' = o.value /\ raised' = UpdateView
            ELSE contents' = contents /\ raised' = o.raised

LeftGuardAtOne == view_mode = "feed" /\ current_page >= 1

LeftGuard == view_mode = "feed" /\ current_page > 1

RightGuardAnyMode == TRUE

RightGuardLastPage == view_mode = "feed" /\ current_page < 2

RightGuard == view_mode = "feed"

KeyLeft ==
    /\ app = "running"
    /\ lastKey' = "left"
    /\ rendered' = Stale
    /\ IF LeftGuard
         THEN /\ current_page' = current_page - 1
              /\ selected_index' = 0
              /\ FetchContents(current_page - 1)
         ELSE /\ UNCHANGED <<current_page, selected_index, contents>>
              /\ fetches' = << >>
              /\ raised' = UpdateView
    /\ app' = AfterHandler(raised')
    /\ UNCHANGED <<current_content, view_mode, content_scroll_position, comments>>

KeyRight ==
    /\ app = "running"
    /\ RightGuard => current_page < MaxPage
    /\ lastKey' = "right"
    /\ rendered' = Stale
    /\ IF RightGuard
         THEN /\ current_page' = current_page + 1
              /\ selected_index' = 0
              /\ FetchContents(current_page + 1)
         ELSE /\ UNCHANGED <<current_page, selected_index, contents>>
              /\ fetches' = << >>
              /\ raised' = UpdateView
    /\ app' = AfterHandler(raised')
    /\ UNCHANGED <<current_content, view_mode, content_scroll_position, comments>>

\* x[i] of Python: a list takes -len..len-1, a JSON object has no integer key.
SubscriptError(x, i) ==
    IF x.kind = "list"
      THEN IF i >= -Len(x.elems) /\ i < Len(x.elems) THEN "none" ELSE "IndexError"
      ELSE "KeyError"

SubscriptFirst(x, i) == x.elems[1]

Subscript(x, i) == IF i >= 0 THEN x.elems[i + 1] ELSE x.elems[Len(x.elems) + i + 1]

EnterGuardNoItems == view_mode = "feed"

EnterGuard == view_mode = "feed" /\ Truthy(contents)

KeyEnter ==
    /\ app = "running"
    /\ lastKey' = "enter"
    /\ rendered' = Stale
    /\ IF EnterGuard
         THEN /\ view_mode' = "content"
              /\ content_scroll_position' = 0
              /\ IF SubscriptError(contents, selected_index) # "none"
                   THEN /\ raised' = SubscriptError(contents, selected_index)
                        /\ fetches' = << >>
                        /\ UNCHANGED <<current_content, comments>>
                   ELSE LET username == Subscript(contents, selected_index).owner_username
                            slug == Subscript(contents, selected_index).slug
                        IN \E o1 \in get_content(username, slug) :
                             IF o1.raised # "none"
                               THEN /\ raised' = o1.raised
                                    /\ fetches' = <<ItemRequest("get_content", username, slug, o1)>>
                                    /\ UNCHANGED <<current_content, comments>>
                               ELSE /\ current_content' = o1.value
                                    /\ \E o2 \in get_comments(username, slug) :
                                         /\ fetches' =
                                              <<ItemRequest("get_content", username, slug, o1),
                                                ItemRequest("get_comments", username, slug, o2)>>
                                         /\ IF o2.raised # "none"
                                              THEN raised' = o2.raised /\ UNCHANGED comments
                                              ELSE raised' = UpdateView /\ comments' = o2.value
         ELSE /\ UNCHANGED <<view_mode, content_scroll_position, current_content, comments>>
              /\ fetches' = << >>
              /\ raised' = UpdateView
    /\ app' = AfterHandler(raised')
    /\ UNCHANGED <<current_page, selected_index, contents>>

EscapeGuard == view_mode \in {"content", "comments"}

KeyEscape ==
    /\ app = "running"
    /\ lastKey' = "escape"
    /\ rendered' = Stale
    /\ view_mode' = IF EscapeGuard THEN "feed" ELSE view_mode
    /\ fetches' = << >>
    /\ raised' = UpdateView
    /\ app' = AfterHandler(raised')
    /\ UNCHANGED <<current_page, selected_index, contents, current_content,
                   content_scroll_position, comments>>

\* event.app.exit(): the loop ends, no field of TabNewsUI is touched.
KeyQ ==
    /\ app = "running"
    /\ app' = AppExit
    /\ lastKey' = "q"
    /\ rendered' = Stale
    /\ fetches' = << >>
    /\ raised' = "none"
    /\ UNCHANGED nav

CGuardAnyMode == view_mode # "comments"

CGuard == view_mode = "content"

KeyC ==
    /\ app = "running"
    /\ lastKey' = "c"
    /\ rendered' = Stale
    /\ view_mode' = IF CGuard THEN "comments" ELSE view_mode
    /\ fetches' = << >>
    /\ raised' = UpdateView
    /\ app' = AfterHandler(raised')
    /\ UNCHANGED <<current_page, selected_index, contents, current_content,
                   content_scroll_position, comments>>

Next ==
    \/ Run
    \/ KeyUp
    \/ KeyDown
    \/ KeyLeft
    \/ KeyRight
    \/ KeyEnter
    \/ KeyEscape
    \/ KeyQ
    \/ KeyC

Spec == Init /\ [][Next]_vars

(* ------------------------------ rendering ------------------------------ *)
NumAddresses == 2    \* how many addresses a Panel object may be found at

Addresses == 1..NumAddresses

\* A display function left with an exception instead of returning.
RenderError(exc) == [kind |-> "raise", exc |-> exc]

\* The empty string display_content / display_comments return.
EmptyOutput == [kind |-> "str", text |-> << >>]

\* str(r) of a rich Panel: the class defines no __str__/__repr__, the text is
\* object's default one and carries the address of the object.
PanelStr(at) == [obj |-> "rich.panel.Panel", at |-> at]

\* display_feed: one row per element of contents; iterating a JSON object
\* yields its keys, and key['title'] of a str raises TypeError.
display_feed(items, sel) ==
    IF items.kind = "list"
      THEN [kind |-> "Table",
            rows |-> [i \in 1..Len(items.elems) |->
                        [prefix |-> IF i - 1 = sel THEN "->" ELSE " ",
                         title |-> items.elems[i].title]]]
      ELSE IF PyLen(items) > 0 THEN RenderError("TypeError")
      ELSE [kind |-> "Table", rows |-> << >>]

display_content(detail) ==
    IF Truthy(detail)
      THEN IF {"body", "title"} \subseteq DOMAIN detail
             THEN [kind |-> "Panel", title |-> detail.title, body |-> detail.body]
             ELSE RenderError("KeyError")
      ELSE EmptyOutput

\* display_comments: the Panels are joined through str(); at[i] is where the
\* i-th Panel of this call lives.
display_comments(replies, at) ==
    IF Truthy(replies)
      THEN IF replies.kind = "list"
             THEN [kind |-> "str",
                   text |-> [i \in 1..Len(replies.elems) |-> PanelStr(at[i])]]
             ELSE RenderError("TypeError")
      ELSE EmptyOutput

get_renderable(mode, items, sel, detail, replies, at) ==
    IF mode = "feed" THEN display_feed(items, sel)
    ELSE IF mode = "content" THEN display_content(detail)
    ELSE display_comments(replies, at)

\* The objects of one call are alive together: their addresses differ.
Placements(n) ==
    {at \in [1..n -> Addresses] : \A i, j \in 1..n : i # j => at[i] # at[j]}

\* RichControl.create_content asks get_renderable for the current state; the
\* display functions assign no field.
Render ==
    /\ app = "running"
    /\ \E at \in Placements(IF comments.kind = "list" THEN Len(comments.elems) ELSE 0) :
         rendered' = get_renderable(view_mode, contents, selected_index,
                                    current_content, comments, at)
    /\ UNCHANGED <<app, nav, lastKey, fetches, raised>>

NextRender == Next \/ Render

SpecRender == Init /\ [][NextRender]_vars

(* ------------------------------- claims -------------------------------- *)
\* A fetch of the log failed: it raised, or the remote answered non-success.
Failed(f) == f.raised # "none" \/ f.status # 200

IsItemList(x) == x.kind = "list" /\ Len(x.elems) > 0

\* C1: in every reachable state selected_index is within [0, len(items)-1]
\* when items is non-empty and is 0 when items is empty.
C1_SelectedIndexInRange ==
    contents.kind = "list" =>
        IF Len(contents.elems) > 0
          THEN selected_index >= 0 /\ selected_index <= Len(contents.elems) - 1
          ELSE selected_index = 0

\* C2: Escape pressed in content or comments mode results in feed mode with
\* current_content unset and comments empty.
C2_BackClears ==
    [][(lastKey' = "escape" /\ view_mode \in {"content", "comments"})
         => (view_mode' = "feed" /\ current_content' = None /\ comments' = EmptyList)]_vars

\* C3: when Enter is pressed in feed mode on a non-empty list and the
\* get_content fetch fails, view_mode remains feed and current_content stays
\* unset.
C3_FailedSelectStaysInFeed ==
    [][(/\ lastKey' = "enter"
        /\ view_mode = "feed"
        /\ IsItemList(contents)
        /\ current_content = None
        /\ fetches' # << >>
        /\ Failed(fetches'[1]))
         => (view_mode' = "feed" /\ current_content' = None)]_vars

\* C4: current_content is set or comments is non-empty only in content or
\* comments mode; in feed mode both are cleared.
C4_DetailOnlyOutsideFeed ==
    view_mode = "feed" => (current_content = None /\ comments = EmptyList)

\* C5: current_page >= 1 in every reachable state, and Left in feed mode at
\* page 1 leaves page, items and selected index unchanged and issues no fetch.
C5_PageAtLeastOne ==
    /\ [](current_page >= 1)
    /\ [][(lastKey' = "left" /\ view_mode = "feed" /\ current_page = 1)
            => (UNCHANGED <<current_page, contents, selected_index>> /\ fetches' = << >>)]_vars

C5_Witness ==
    /\ lastKey = "left" /\ view_mode = "feed" /\ current_page = 1
    /\ fetches = << >> /\ IsItemList(contents)

\* C6: Enter in feed mode on an empty item list leaves view mode, detail,
\* comments, scroll offset, page and selected index unchanged and issues no
\* fetch.
C6_SelectOnEmptyIsNoOp ==
    [][(lastKey' = "enter" /\ view_mode = "feed" /\ PyLen(contents) = 0)
         => (/\ UNCHANGED <<view_mode, current_content, comments,
                            content_scroll_position, current_page, selected_index,
                            contents>>
             /\ fetches' = << >>)]_vars

C6_Witness ==
    lastKey = "enter" /\ view_mode = "feed" /\ contents = EmptyList /\ fetches = << >>

\* The item Enter opens, and what the claim C7 says of the step.
Selected == contents.elems[selected_index + 1]

SelectStep == lastKey' = "enter" /\ view_mode = "feed" /\ IsItemList(contents)

BothSucceeded(log) == Len(log) = 2 /\ ~Failed(log[1]) /\ ~Failed(log[2])

SuccessEffect ==
    BothSucceeded(fetches') =>
        /\ view_mode' = "content"
        /\ content_scroll_position' = 0
        /\ current_content' = fetches'[1].value
        /\ current_content' = ContentOf(Selected.owner_username, Selected.slug)
        /\ comments' = fetches'[2].value

IsRequestFor(f, op, item) ==
    f.op = op /\ f.username = item.owner_username /\ f.slug = item.slug

\* C7 as stated: Enter in feed mode on a non-empty list issues get_content
\* and get_comments for exactly the (owner_username, slug) of
\* items[selected_index]; when both succeed view_mode is content, the scroll
\* offset is 0 and current_content and comments hold the two results.
C7_SelectIssuesBothFetches ==
    [][SelectStep =>
         (/\ Len(fetches') = 2
          /\ IsRequestFor(fetches'[1], "get_content", Selected)
          /\ IsRequestFor(fetches'[2], "get_comments", Selected)
          /\ SuccessEffect)]_vars

\* C7 as amended: Enter in feed mode on a non-empty list issues get_content
\* for exactly the (owner_username, slug) of items[selected_index] and, when
\* that call returns rather than raises, get_comments for the same pair, and
\* nothing else; when both succeed view_mode is content, the scroll offset is
\* 0 and current_content and comments hold the two results.
C7_SelectFetchesSelected ==
    [][SelectStep =>
         (/\ Len(fetches') >= 1
          /\ IsRequestFor(fetches'[1], "get_content", Selected)
          /\ Len(fetches') = (IF fetches'[1].raised = "none" THEN 2 ELSE 1)
          /\ Len(fetches') = 2 => IsRequestFor(fetches'[2], "get_comments", Selected)
          /\ SuccessEffect)]_vars

C7_Witness ==
    /\ lastKey = "enter" /\ view_mode = "content" /\ BothSucceeded(fetches)
    /\ selected_index = 1
    /\ current_content = ContentOf(Selected.owner_username, Selected.slug)
    /\ comments = PyList(<<CommentOf(Selected.owner_username, Selected.slug)>>)

\* C8: comments mode is entered only by 'c' pressed in content mode; 'c' in
\* feed mode leaves the view mode and the rest of the state unchanged; Escape
\* in comments mode goes to feed mode.
C8_CommentsOnlyFromContent ==
    /\ [][(view_mode # "comments" /\ view_mode' = "comments")
            => (view_mode = "content" /\ lastKey' = "c")]_vars
    /\ [][(lastKey' = "c" /\ view_mode = "feed")
            => (UNCHANGED nav /\ fetches' = << >>)]_vars
    /\ [][(lastKey' = "escape" /\ view_mode = "comments") => view_mode' = "feed"]_vars

\* 'c' pressed in feed mode after an item had been opened and left.
C8_Witness ==
    lastKey = "c" /\ view_mode = "feed" /\ current_content # None

\* C9: in feed mode on a non-empty list of length n, Down sets selected_index
\* to min(n-1, selected_index+1) and Up to max(0, selected_index-1); neither
\* changes page, items or view mode, nor issues a fetch.
C9_MoveClamps ==
    /\ [][(lastKey' = "down" /\ view_mode = "feed" /\ IsItemList(contents))
            => (/\ selected_index' = Min(Len(contents.elems) - 1, selected_index + 1)
                /\ UNCHANGED <<current_page, contents, view_mode>>
                /\ fetches' = << >>)]_vars
    /\ [][(lastKey' = "up" /\ view_mode = "feed" /\ IsItemList(contents))
            => (/\ selected_index' = Max(0, selected_index - 1)
                /\ UNCHANGED <<current_page, contents, view_mode>>
                /\ fetches' = << >>)]_vars

\* Down has taken the selection to the last of three items.
C9_Witness ==
    /\ lastKey = "down" /\ view_mode = "feed" /\ current_page = 1
    /\ contents.kind = "list" /\ Len(contents.elems) = 3 /\ selected_index = 2

\* C10: content_scroll_position >= 0 in every reachable state; Up in content
\* mode sets it to max(0, offset-1), Down in content mode adds exactly 1, and
\* every entry into content mode from feed mode resets it to 0.
C10_ScrollNonNegative ==
    /\ [](content_scroll_position >= 0)
    /\ [][(lastKey' = "up" /\ view_mode = "content")
            => content_scroll_position' = Max(0, content_scroll_position - 1)]_vars
    /\ [][(lastKey' = "down" /\ view_mode = "content")
            => content_scroll_position' = content_scroll_position + 1]_vars
    /\ [][(view_mode = "feed" /\ view_mode' = "content")
            => content_scroll_position' = 0]_vars

\* Up pressed at the top of an opened item.
C10_Witness ==
    lastKey = "up" /\ view_mode = "content" /\ content_scroll_position = 0
\* C11: rendering the same state twice with no key event in between yields
\* identical output and changes no field of the state; in content or
\* comments mode with no detail / no comments loaded the output is empty
\* rather than a failure.
C11_RenderIsPure ==
    /\ [][(rendered # Stale /\ rendered' # Stale) => rendered' = rendered]_vars
    /\ [][rendered' # Stale => UNCHANGED nav]_vars
    /\ []((rendered # Stale /\ view_mode = "content" /\ current_content = None)
            => rendered = EmptyOutput)
    /\ []((rendered # Stale /\ view_mode = "comments" /\ comments = EmptyList)
            => rendered = EmptyOutput)
\* C12: when the list fetch of Left or Right fails (it raises or the remote
\* answers non-success), items, page and selected index are as before the
\* key and the view mode is feed.
C12_FailedPageFetchKeepsState ==
    [][(/\ lastKey' \in {"left", "right"}
        /\ view_mode = "feed"
        /\ fetches' # << >>
        /\ Failed(fetches'[1]))
         => (UNCHANGED <<contents, current_page, selected_index>> /\ view_mode' = "feed")]_vars

\* Some fetch of the log ended in an error.
AnyFailed(log) == \E i \in 1..Len(log) : Failed(log[i])

NavKeys == {"up", "down", "left", "right", "enter", "escape", "c"}

\* C14: handling any navigation key in any view mode runs the handler to its
\* end without raising an error (the re-render that follows is requested by
\* the handler's last statement, after that point).
C14_HandlersComplete ==
    lastKey \in NavKeys => raised = "none"
\* What C15 says of a page step to page p: the page is p, the selection 0,
\* one list fetch for p goes out and its result replaces items wholesale; an
\* empty result gives an empty feed that renders as an empty table.
PageStepEffect(p) ==
    /\ current_page' = p
    /\ selected_index' = 0
    /\ Len(fetches') = 1
    /\ fetches'[1].op = "get_contents"
    /\ fetches'[1].page = p
    /\ fetches'[1].raised = "none" => contents' = fetches'[1].value
    /\ (~Failed(fetches'[1]) /\ fetches'[1].value = EmptyList) =>
          /\ contents' = EmptyList
          /\ view_mode' = "feed"
          /\ display_feed(contents', selected_index') = [kind |-> "Table", rows |-> << >>]

ViewModes == {"feed", "content", "comments"}

\* C16 as stated: exactly one view mode is active at any time and no
\* transition issues a second fetch.
C16_OneFetchPerTransition ==
    /\ [](view_mode \in ViewModes)
    /\ [][Len(fetches') <= 1]_vars

\* C16 as amended: exactly one view mode is active at any time and fetches
\* never overlap: a transition issues at most one fetch, except Enter in
\* feed mode, which issues get_content and, only after that call has
\* returned, get_comments.
C16_FetchesNeverOverlap ==
    /\ [](view_mode \in ViewModes)
    /\ [][/\ Len(fetches') <= 2
          /\ Len(fetches') = 2 =>
               /\ lastKey' = "enter" /\ view_mode = "feed"
               /\ fetches'[1].op = "get_content" /\ fetches'[1].raised = "none"
               /\ fetches'[2].op = "get_comments"]_vars

\* Enter has issued its two fetches, the second after a 404 of the first.
C16_Witness ==
    /\ lastKey = "enter" /\ Len(fetches) = 2
    /\ fetches[1].status = 404 /\ fetches[2].op = "get_comments"
\* C17: the state starts in feed mode on page 1, and when the list fetch of
\* startup fails the application does not terminate: it enters the event
\* loop with an empty feed.
C17_StartupFailureDegrades ==
    /\ app = "created" => (view_mode = "feed" /\ current_page = 1)
    /\ (lastKey = "none" /\ fetches # << >> /\ Failed(fetches[1]))
          => (app = "running" /\ contents = EmptyList)

InDetail == view_mode \in {"content", "comments"}

\* C19: whenever the view mode is content or comments, current_content and
\* comments are both the results fetched for items[selected_index] by the
\* most recent Enter: never the detail or comments of another item, never
\* those of two different items.
C19_DetailBelongsToSelected ==
    InDetail =>
        /\ IsItemList(contents)
        /\ selected_index >= 0 /\ selected_index < Len(contents.elems)
        /\ \E o \in get_content(Selected.owner_username, Selected.slug) :
              o.raised = "none" /\ current_content = o.value
        /\ \E o \in get_comments(Selected.owner_username, Selected.slug) :
              o.raised = "none" /\ comments = o.value

\* C20: while the view mode is content or comments no key changes page,
\* selected index or items or issues a list fetch, so Escape returns to feed
\* mode with the page, items and selected index Enter was pressed on.
C20_DetailKeepsFeedPosition ==
    /\ [][InDetail =>
            (/\ UNCHANGED <<current_page, selected_index, contents>>
             /\ \A i \in 1..Len(fetches') : fetches'[i].op # "get_contents")]_vars
    /\ [][(lastKey' = "escape" /\ InDetail)
            => (view_mode' = "feed"
                /\ UNCHANGED <<current_page, selected_index, contents>>)]_vars

\* Right was pressed while the second item of page 1 was open.
C20_Witness ==
    /\ lastKey = "right" /\ view_mode = "content"
    /\ current_page = 1 /\ selected_index = 1 /\ IsItemList(contents)
====
